---- MODULE Spec2Model ----
(***************************************************************************)
(* Verification model of the duration-upsampling core of tacospawn:        *)
(*   src/model/upsampler.py  Upsampler.__init__ / Upsampler.forward        *)
(*   src/model/nat.py        NonAttentiveTacotron.forward                  *)
(*                                                                         *)
(* Tensors are modelled with their shapes and with torch's broadcasting    *)
(* rules.  Numbers are exact extended rationals with IEEE inf/nan.  A      *)
(* tensor of domain "log" stores for every entry x the rational e^x, so    *)
(* that log-space addition is multiplication of the stored values,         *)
(* logsumexp is their sum, -inf is stored as 0 and +inf as inf.  A tensor  *)
(* of domain "spinv" stores for every entry x the rational softplus(x).    *)
(***************************************************************************)
EXTENDS Integers, Sequences, FiniteSets, TLC

VARIABLES pc, err, ctorArgs, inShape, mask, lengths, logdur, range_, factor,
          dur, centers, align,
          reduction, supplied, mel, mellen, remains, predlen, ret

\* state of NonAttentiveTacotron.forward
natVars == <<reduction, supplied, mel, mellen, remains, predlen, ret>>

vars == <<pc, err, ctorArgs, inShape, mask, lengths, logdur, range_, factor,
          dur, centers, align, natVars>>

(* ------------------------------ bounds --------------------------------- *)
MaxB == 2

MaxS == 3

\* largest number of entries B x S of a drawn [B, S] tensor
MaxCells == 6

MaxDur == 2

MaxLen == 2

(* ------------------------- extended rationals -------------------------- *)
RECURSIVE GCD(_, _)
GCD(a, b) == IF b = 0 THEN a ELSE GCD(b, a % b)

Abs(n) == IF n < 0 THEN -n ELSE n

Sgn(n) == IF n < 0 THEN -1 ELSE IF n > 0 THEN 1 ELSE 0

Fin(n, d) ==
    LET s == IF d < 0 THEN -1 ELSE 1
        g == GCD(Abs(n), Abs(d))
    IN  [k |-> "fin", n |-> (s * n) \div g, d |-> (s * d) \div g]

Inf(s) == [k |-> "inf", n |-> s, d |-> 0]

NaN == [k |-> "nan", n |-> 0, d |-> 0]

Zero == Fin(0, 1)

One == Fin(1, 1)

IsFinite(x) == x.k = "fin"

IsZero(x) == x.k = "fin" /\ x.n = 0

Neg(x) == [x EXCEPT !.n = -x.n]

Add(x, y) ==
    IF x.k = "nan" \/ y.k = "nan" THEN NaN
    ELSE IF x.k = "inf" /\ y.k = "inf"
         THEN IF x.n = y.n THEN x ELSE NaN
    ELSE IF x.k = "inf" THEN x
    ELSE IF y.k = "inf" THEN y
    ELSE Fin(x.n * y.d + y.n * x.d, x.d * y.d)

Sub(x, y) == Add(x, Neg(y))

Mul(x, y) ==
    IF x.k = "nan" \/ y.k = "nan" THEN NaN
    ELSE IF x.k = "inf" \/ y.k = "inf"
         THEN IF IsZero(x) \/ IsZero(y) THEN NaN
              ELSE Inf(Sgn(x.n) * Sgn(y.n))
    ELSE Fin(x.n * y.n, x.d * y.d)

Div(x, y) ==
    IF x.k = "nan" \/ y.k = "nan" THEN NaN
    ELSE IF x.k = "inf"
         THEN IF y.k = "inf" THEN NaN
              ELSE Inf(x.n * (IF y.n < 0 THEN -1 ELSE 1))
    ELSE IF y.k = "inf" THEN Zero
    ELSE IF y.n = 0
         THEN IF x.n = 0 THEN NaN ELSE Inf(Sgn(x.n))
    ELSE Fin(x.n * y.d, x.d * y.n)

Square(x) == Mul(x, x)

\* the least integer >= x, for finite x
Ceil(x) == Fin(-((-x.n) \div x.d), 1)

Leq(x, y) == x.k = "fin" /\ y.k = "fin" /\ x.n * y.d <= y.n * x.d

\* 1 - x for a 0/1 value (the ~ of a boolean tensor entry)
Not01(x) == IF IsZero(x) THEN One ELSE Zero

(* ------------------------------ tensors -------------------------------- *)
RECURSIVE IndexSet(_)
IndexSet(shape) ==
    IF shape = <<>> THEN {<<>>}
    ELSE {<<i>> \o r : i \in 1..Head(shape), r \in IndexSet(Tail(shape))}

Tensor(shape, dom, F(_)) ==
    [shape |-> shape, dom |-> dom, data |-> [i \in IndexSet(shape) |-> F(i)]]

\* Python None, and the value of an expression that raised
None == [shape |-> <<>>, dom |-> "none", data |-> <<>>]

Raised(type) == [shape |-> <<>>, dom |-> type, data |-> <<>>]

IsNone(t) == t.dom = "none"

IsTensor(t) == t.dom \in {"lin", "log", "spinv"}

Rank(t) == Len(t.shape)

PadLeft(s, n) == [i \in 1..n |-> IF i <= n - Len(s) THEN 1 ELSE s[i - (n - Len(s))]]

MaxOf(a, b) == IF a >= b THEN a ELSE b

\* torch broadcasting of two shapes
BroadcastOK(s, t) ==
    LET n == MaxOf(Len(s), Len(t))
        ps == PadLeft(s, n)
        pt == PadLeft(t, n)
    IN  \A i \in 1..n : ps[i] = pt[i] \/ ps[i] = 1 \/ pt[i] = 1

BroadcastShape(s, t) ==
    LET n == MaxOf(Len(s), Len(t))
        ps == PadLeft(s, n)
        pt == PadLeft(t, n)
    IN  [i \in 1..n |-> MaxOf(ps[i], pt[i])]

\* the entry of an operand of shape `shape` that a result index reads
BIndex(idx, shape) ==
    LET n == Len(idx)
        r == Len(shape)
    IN  [i \in 1..r |-> IF shape[i] = 1 THEN 1 ELSE idx[n - r + i]]

At(t, idx) == t.data[BIndex(idx, t.shape)]

\* elementwise binary operation with broadcasting; size mismatch raises
Map2(Op(_, _), x, y, dom) ==
    IF ~IsTensor(x) THEN x
    ELSE IF ~IsTensor(y) THEN y
    ELSE IF ~BroadcastOK(x.shape, y.shape) THEN Raised("RuntimeError")
    ELSE Tensor(BroadcastShape(x.shape, y.shape), dom,
                LAMBDA i : Op(At(x, i), At(y, i)))

Map1(Op(_), x, dom) ==
    IF ~IsTensor(x) THEN x
    ELSE Tensor(x.shape, dom, LAMBDA i : Op(x.data[i]))

(* ------------------------- torch operations ---------------------------- *)
\* x[:, None] and friends: insert a dimension of size 1 at position p
Unsqueeze(x, p) ==
    IF ~IsTensor(x) THEN x
    ELSE LET n == Rank(x)
             sh == [i \in 1..(n + 1) |->
                      IF i < p THEN x.shape[i]
                      ELSE IF i = p THEN 1 ELSE x.shape[i - 1]]
         IN  Tensor(sh, x.dom,
                    LAMBDA idx : x.data[[i \in 1..n |->
                                   IF i < p THEN idx[i] ELSE idx[i + 1]]])

\* x.squeeze(dim=-1): drops the last dimension only when its size is 1
SqueezeLast(x) ==
    IF ~IsTensor(x) THEN x
    ELSE IF Rank(x) = 0 \/ x.shape[Rank(x)] # 1 THEN x
    ELSE LET n == Rank(x) - 1
         IN  Tensor(SubSeq(x.shape, 1, n), x.dom,
                    LAMBDA idx : x.data[idx \o <<1>>])

\* ~mask.to(torch.bool)
LogicalNot(m) == Map1(Not01, m, "lin")

\* x.masked_fill(m, v), out of place: x and m are broadcast against each other
MaskedFill(x, m, v) ==
    IF ~IsTensor(x) THEN x
    ELSE IF ~IsTensor(m) THEN m
    ELSE IF ~BroadcastOK(x.shape, m.shape) THEN Raised("RuntimeError")
    ELSE Tensor(BroadcastShape(x.shape, m.shape), x.dom,
                LAMBDA i : IF IsZero(At(m, i)) THEN At(x, i) ELSE v)

\* x[pre, 1] + ... + x[pre, n]
RECURSIVE SumTo(_, _, _)
SumTo(x, pre, n) ==
    IF n = 0 THEN Zero
    ELSE Add(SumTo(x, pre, n - 1), x.data[pre \o <<n>>])

\* reduction of the last dimension by summation of the stored values
ReduceLast(x, dom, keepdim) ==
    IF ~IsTensor(x) THEN x
    ELSE LET n == Rank(x) - 1
             pre == SubSeq(x.shape, 1, n)
             sh == IF keepdim THEN pre \o <<1>> ELSE pre
         IN  Tensor(sh, dom,
                    LAMBDA idx : SumTo(x, SubSeq(idx, 1, n), x.shape[n + 1]))

\* torch.logsumexp(x, dim=-1) of a log-domain tensor
LogSumExp(x) == ReduceLast(x, "log", FALSE)

\* x.sum(dim=-1, keepdim=...)
SumLast(x, keepdim) == ReduceLast(x, "lin", keepdim)

\* torch.log / torch.exp: None is not a tensor and raises TypeError
TorchLog(x) ==
    IF IsNone(x) THEN Raised("TypeError")
    ELSE IF ~IsTensor(x) THEN x ELSE [x EXCEPT !.dom = "log"]

TorchExp(x) ==
    IF IsNone(x) THEN Raised("TypeError")
    ELSE IF ~IsTensor(x) THEN x ELSE [x EXCEPT !.dom = "lin"]

\* F.softplus
Softplus(x) == IF ~IsTensor(x) THEN x ELSE [x EXCEPT !.dom = "lin"]

\* a + b and a - b of log-domain tensors, a * b and a / b of linear ones
LogAddT(a, b) == Map2(Mul, a, b, "log")

LogSubT(a, b) == Map2(Div, a, b, "log")

MulT(a, b) == Map2(Mul, a, b, "lin")

DivT(a, b) == Map2(Div, a, b, "lin")

SubT(a, b) == Map2(Sub, a, b, "lin")

NoDim == 0

\* torch.cumsum(x, dim): dim is a required argument
Cumsum(x, dim) ==
    IF dim = NoDim THEN Raised("TypeError")
    ELSE IF ~IsTensor(x) THEN x
    ELSE Tensor(x.shape, x.dom,
                LAMBDA idx : SumTo(x, SubSeq(idx, 1, Rank(x) - 1), idx[Rank(x)]))

(* ------------------------------ inputs --------------------------------- *)
DurVals == {Fin(n, 1) : n \in 1..MaxDur}

RangeVals == {Fin(1, 2), Fin(2, 1)}

LenVals == {Fin(n, 1) : n \in 1..MaxLen}

Shapes2 == {sh \in (1..MaxB) \X (1..MaxS) : sh[1] * sh[2] <= MaxCells}

\* binary prefix masks: mask[b, i] = 1 iff i < textlen[b]  (nat.py 75-77)
MaskOf(sh, textlen) ==
    Tensor(sh, "lin", LAMBDA i : IF i[2] <= textlen[i[1]] THEN One ELSE Zero)

Masks == {MaskOf(sh, tl) : sh \in Shapes2, tl \in [1..MaxB -> 0..MaxS]}

TensorsOf(sh, dom, vals) ==
    {[shape |-> sh, dom |-> dom, data |-> f] : f \in [IndexSet(sh) -> vals]}

Lengths == {None} \cup
    UNION {TensorsOf(<<b>>, "lin", LenVals) : b \in 1..MaxB}

(* --------------------------- control state ----------------------------- *)
NoErr == [type |-> "none", line |-> 0]

Raise(type, line) ==
    /\ pc' = "raised"
    /\ err' = [type |-> type, line |-> line]

\* positional parameters of Upsampler.__init__ after self
InitParams == 2

\* positional arguments of the Upsampler(...) call in NonAttentiveTacotron
NatCtorArgs == 3

NoReturn == [mel |-> None, mellen |-> None]

\* remains = None (nat.py line 95)
NoRemains == -1

\* no NonAttentiveTacotron.forward call is in progress
NatIdle ==
    /\ reduction = 0
    /\ supplied = NoReturn
    /\ mel = None
    /\ mellen = None
    /\ remains = NoRemains
    /\ predlen = None
    /\ ret = NoReturn

Init ==
    /\ pc = "new"
    /\ err = NoErr
    /\ ctorArgs = 0
    /\ inShape = <<>>
    /\ mask = None
    /\ lengths = None
    /\ logdur = None
    /\ range_ = None
    /\ factor = None
    /\ dur = None
    /\ centers = None
    /\ align = None
    /\ NatIdle

(* ------------------------ Upsampler.__init__ --------------------------- *)
Construct ==
    /\ pc = "new"
    /\ \E n \in {InitParams, NatCtorArgs} :
         /\ ctorArgs' = n
         /\ IF n = InitParams
            THEN pc' = "constructed" /\ err' = err
            ELSE Raise("TypeError", 12)
    /\ UNCHANGED <<inShape, mask, lengths, logdur, range_, factor, dur,
                   centers, align, natVars>>

(* ------------------------- Upsampler.forward --------------------------- *)
\* the call binds inputs [B, S, C x 2], a [B, S] mask and lengths: None or [B]
Call ==
    /\ pc = "constructed"
    /\ \E sh \in Shapes2 :
         /\ inShape' = sh
         /\ mask' \in {m \in Masks : m.shape = sh}
         /\ lengths' \in {l \in Lengths : IsNone(l) \/ l.shape = <<sh[1]>>}
    /\ pc' = "called"
    /\ UNCHANGED <<err, ctorArgs, logdur, range_, factor, dur, centers, align, natVars>>

\* the call binds inputs, mask and lengths of any shapes
CallAny ==
    /\ pc = "constructed"
    /\ inShape' \in Shapes2
    /\ mask' \in Masks
    /\ lengths' \in Lengths
    /\ pc' = "called"
    /\ UNCHANGED <<err, ctorArgs, logdur, range_, factor, dur, centers, align, natVars>>

\* lines 39-44: BiGRU stack, projection to 2 channels, chunk into
\* logdur and range_, both [B, S, 1]; the rows of a batch carry the same
\* text, so the projection is drawn per token
Project ==
    /\ pc = "called"
    /\ \E d \in [1..MaxS -> DurVals], r \in RangeVals :
         /\ \A i \in 1..MaxS : i > inShape[2] => d[i] = One
         /\ logdur' = Tensor(inShape \o <<1>>, "log", LAMBDA i : d[i[2]])
         /\ range_' = Tensor(inShape \o <<1>>, "spinv", LAMBDA i : r)
    /\ pc' = "projected"
    /\ UNCHANGED <<err, ctorArgs, inShape, mask, lengths, factor, dur,
                   centers, align, natVars>>

\* variant of line 49 that fills with 0.0 instead of -inf
FilledWithZero(ld, m) == MaskedFill(ld, LogicalNot(m), One)

\* line 49: logdur.masked_fill(~mask.to(torch.bool), -np.inf)
Filled(ld, m) == MaskedFill(ld, LogicalNot(m), Zero)

\* lines 48-49: factor
FactorOf(ld, m, l) == LogSubT(TorchLog(l), LogSumExp(Filled(ld, m)))

\* line 51: logdur + factor[:, None]
Reranged(ld, f) == LogAddT(ld, Unsqueeze(f, 2))

\* lines 46-51: re-ranging with a target length
Rerange ==
    /\ pc = "projected"
    /\ ~IsNone(lengths)
    /\ LET f == FactorOf(logdur, mask, lengths)
           ld == Reranged(logdur, f)
       IN  IF ~IsTensor(f)
           THEN Raise(f.dom, 48) /\ UNCHANGED <<factor, logdur>>
           ELSE IF ~IsTensor(ld)
           THEN Raise(ld.dom, 51) /\ factor' = f /\ UNCHANGED logdur
           ELSE /\ factor' = f
                /\ logdur' = ld
                /\ pc' = "reranged"
                /\ err' = err
    /\ UNCHANGED <<ctorArgs, inShape, mask, lengths, range_, dur, centers, align, natVars>>

\* line 55: torch.exp(lengths).sum(dim=-1)
PredictedLengths(l) == SumLast(TorchExp(l), FALSE)

\* lines 52-55: no target length
NoRerange ==
    /\ pc = "projected"
    /\ IsNone(lengths)
    /\ factor' = None
    /\ LET l == PredictedLengths(lengths)
       IN  IF ~IsTensor(l)
           THEN Raise(l.dom, 55) /\ UNCHANGED lengths
           ELSE /\ lengths' = l
                /\ pc' = "reranged"
                /\ err' = err
    /\ UNCHANGED <<ctorArgs, inShape, mask, logdur, range_, dur, centers, align, natVars>>

\* line 57: dur
DurOf(ld, m) == MulT(TorchExp(SqueezeLast(ld)), m)

\* line 58: range_
RangeOf(rg, m) == MulT(Softplus(SqueezeLast(rg)), m)

\* lines 56-58: masking
Masking ==
    /\ pc = "reranged"
    /\ LET d == DurOf(logdur, mask)
           r == RangeOf(range_, mask)
       IN  IF ~IsTensor(d)
           THEN Raise(d.dom, 57) /\ UNCHANGED <<dur, range_>>
           ELSE IF ~IsTensor(r)
           THEN Raise(r.dom, 58) /\ dur' = d /\ UNCHANGED range_
           ELSE /\ dur' = d
                /\ range_' = r
                /\ pc' = "masked"
                /\ err' = err
    /\ UNCHANGED <<ctorArgs, inShape, mask, lengths, logdur, factor, centers, align, natVars>>

\* line 60: torch.cumsum(dur) - 0.5 * dur
CentersOf(d) ==
    SubT(Cumsum(d, NoDim), Map1(LAMBDA v : Mul(Fin(1, 2), v), d, "lin"))

Centers ==
    /\ pc = "masked"
    /\ LET c == CentersOf(dur)
       IN  IF ~IsTensor(c)
           THEN Raise(c.dom, 60) /\ centers' = c
           ELSE /\ centers' = c
                /\ pc' = "centered"
                /\ err' = err
    /\ UNCHANGED <<ctorArgs, inShape, mask, lengths, logdur, range_, factor,
                   dur, align, natVars>>

\* timesteps < lengths, as a 0/1 tensor
LessT(a, b) ==
    Map2(LAMBDA x, y : IF Leq(x, y) /\ x # y THEN One ELSE Zero, a, b, "lin")

\* line 73: the constant added to the denominator
Epsilon == Fin(1, 100000)

RECURSIVE MaxTo(_, _)
MaxTo(l, n) ==
    IF n = 1 THEN l.data[<<1>>]
    ELSE LET m == MaxTo(l, n - 1)
         IN  IF Leq(m, l.data[<<n>>]) THEN l.data[<<n>>] ELSE m

\* lines 62-63: torch.arange(lengths.max()), the frames 0 .. max - 1
Timesteps(l) ==
    Tensor(<<Ceil(MaxTo(l, l.shape[1])).n>>, "lin", LAMBDA i : Fin(i[1] - 1, 1))

\* line 65: mel_mask
MelMask(l) == LessT(Unsqueeze(Timesteps(l), 1), Unsqueeze(l, 2))

\* line 67: attn_mask
AttnMask(m, l) == MulT(Unsqueeze(MelMask(l), 3), Unsqueeze(m, 2))

\* lines 69-70: squared distance of every frame to every center
Distance(c, r, l) ==
    Map1(Square,
         DivT(SubT(Unsqueeze(Unsqueeze(Timesteps(l), 1), 3), Unsqueeze(c, 2)),
              Unsqueeze(r, 2)),
         "lin")

\* lines 72-73: division by the masked row sum plus epsilon
Normalized(a, m) ==
    DivT(a, Map1(LAMBDA v : Add(v, Epsilon),
                 SumLast(MulT(a, Unsqueeze(m, 2)), TRUE), "lin"))

\* lines 69-75: the alignment forward returns
AlignOf(c, r, m, l) == MulT(Normalized(Distance(c, r, l), m), AttnMask(m, l))

\* lines 61-75: alignment and return
Align ==
    /\ pc = "centered"
    /\ align' = AlignOf(centers, range_, mask, lengths)
    /\ pc' = "returned"
    /\ UNCHANGED <<err, ctorArgs, inShape, mask, lengths, logdur, range_,
                   factor, dur, centers, natVars>>

Next == Construct \/ Call \/ Project \/ Rerange \/ NoRerange \/ Masking \/ Centers

Spec == Init /\ [][Next]_vars

NextAny == Construct \/ CallAny \/ Project \/ Rerange \/ NoRerange \/ Masking \/ Centers

\* calls whose mask and lengths need not match the inputs
SpecAny == Init /\ [][NextAny]_vars

(* ----------------- properties of Upsampler.forward --------------------- *)
B == inShape[1]

S == inShape[2]

\* forward has been called
Called == inShape # <<>>

Training == Called /\ IsTensor(lengths) /\ ~(pc = "raised" /\ err.line = 55)

\* mask is [B, S] and lengths, if given, is [B]
Consistent ==
    /\ Called
    /\ mask.shape = inShape
    /\ IsNone(lengths) \/ lengths.shape = <<B>>

ValidRow(b) == mask.data[<<b, 1>>] = One

\* consistent shapes and at least one valid token in every row
Admissible == Consistent /\ \A b \in 1..B : ValidRow(b)

\* the statement of the given source line has been executed
Executed(line) ==
    \/ pc = "raised" /\ err.line = line
    \/ line <= 51 /\ pc \in {"reranged", "masked", "centered"}
    \/ line <= 58 /\ pc \in {"masked", "centered"}
    \/ line <= 60 /\ pc = "centered"

HasNonFinite(t, b) ==
    /\ IsTensor(t)
    /\ \E i \in IndexSet(t.shape) : i[1] = b /\ ~IsFinite(t.data[i])

\* C1: with a target length, after re-ranging and masking, dur is [B, S] and
\* every row with a valid token sums, over its valid tokens, to lengths[b].
C1_ReconciliationExact ==
    (Admissible /\ Training /\ pc = "masked") =>
        /\ dur.shape = inShape
        /\ \A b \in 1..B : ValidRow(b) =>
              SumTo(MulT(dur, mask), <<b>>, S) = lengths.data[<<b>>]

\* C4: without a target length the else branch yields, for every row, the
\* rounded-up sum of the row's exponentiated raw durations as its length.
C4_InferenceLength ==
    [][(pc = "projected" /\ IsNone(lengths)) =>
         /\ pc' = "reranged"
         /\ IsTensor(lengths')
         /\ lengths'.shape = <<B>>
         /\ \A b \in 1..B :
               lengths'.data[<<b>>] = Ceil(SumTo(TorchExp(logdur), <<b>>, S))]_vars

\* C5: constructing the Upsampler the way NonAttentiveTacotron does succeeds,
\* and a forward call with valid inputs (consistent shapes, a valid token in
\* every row) runs through all its stages without raising.
C5_OrchestrationCompletes ==
    pc = "raised" => (Called /\ ~Admissible)

\* C6: once line 60 has run, centers is a [B, S] tensor that is
\* non-decreasing along the token axis over the valid tokens.
C6_CentersMonotone ==
    (Admissible /\ Executed(60)) =>
        /\ IsTensor(centers)
        /\ centers.shape = inShape
        /\ \A b \in 1..B : \A i \in 1..(S - 1) :
              mask.data[<<b, i + 1>>] = One =>
                 Leq(centers.data[<<b, i>>], centers.data[<<b, i + 1>>])

\* C7: a call whose mask or lengths disagree with the [B, S] of the inputs
\* fails before the re-ranging stage produces anything from them.
C7_ShapeMismatchFatal ==
    (Called /\ ~Consistent) => pc \in {"called", "projected", "raised"}

\* C8: re-ranging computes one factor per batch row, factor is [B], and adds
\* factor[b] to the log-duration of every token of row b.
C8_UniformShift ==
    [][(pc = "projected" /\ Admissible /\ pc' = "reranged") =>
         /\ factor'.shape = <<B>>
         /\ logdur'.shape = logdur.shape
         /\ \A i \in IndexSet(logdur.shape) :
               logdur'.data[i] = Mul(logdur.data[i], factor'.data[<<i[1]>>])]_vars

\* C9: with a target length and a row b without valid tokens nothing is
\* validated: whether and where the call raises depends on the shapes alone,
\* factor holds a non-finite value for row b and so does dur.
C9_DegenerateUnchecked ==
    \A b \in 1..MaxB :
        (Consistent /\ Training /\ b <= B /\ ~ValidRow(b)) =>
            /\ pc = "raised" =>
                  \/ err = [type |-> "TypeError", line |-> 60]
                  \/ /\ err = [type |-> "RuntimeError", line |-> 48]
                     /\ ~(B = S \/ B = 1 \/ S = 1)
            /\ Executed(51) => HasNonFinite(factor, b)
            /\ Executed(57) => HasNonFinite(dur, b)

C9_Witness ==
    /\ pc = "masked"
    /\ Consistent
    /\ Training
    /\ \E b \in 1..B : ~ValidRow(b) /\ HasNonFinite(factor, b) /\ HasNonFinite(dur, b)
    /\ \E b \in 1..B : ValidRow(b)

(* --------------- lines 61-75 as a function of their locals -------------- *)
\* Line 60 never leaves a centers tensor behind, so lines 61-75 are checked
\* from the locals they read: mask and lengths as passed by the caller
\* (consistent shapes, every row with a valid token), range_ as line 58
\* computes it, and any [B, S] tensor of centers.
MaxAlignCells == 4

AlignShapes == {sh \in Shapes2 : sh[1] * sh[2] <= MaxAlignCells}

CenterVals == {Fin(n, 2) : n \in 0..(2 * MaxLen)}

InitAlign ==
    /\ pc = "centered"
    /\ err = NoErr
    /\ ctorArgs = InitParams
    /\ inShape \in AlignShapes
    /\ \E tl \in [1..MaxB -> 1..MaxS] :
         /\ \A b \in 1..MaxB : b <= inShape[1] => tl[b] <= inShape[2]
         /\ mask = MaskOf(inShape, tl)
    /\ lengths \in TensorsOf(<<inShape[1]>>, "lin", LenVals)
    /\ logdur = None
    /\ \E r \in RangeVals :
         range_ = RangeOf(Tensor(inShape \o <<1>>, "spinv", LAMBDA i : r), mask)
    /\ factor = None
    /\ dur = None
    /\ centers \in TensorsOf(inShape, "lin", CenterVals)
    /\ align = None
    /\ NatIdle

SpecAlign == InitAlign /\ [][Align]_vars

\* number of frames of the returned alignment
T == align.shape[2]

ValidFrame(b, t) == Leq(Fin(t, 1), lengths.data[<<b>>])

\* |x| <= 1 / den
Within(x, den) == x.k = "fin" /\ Abs(x.n) <= x.d \div den

MaxF == 2

Ones(sh) == Tensor(sh, "lin", LAMBDA i : One)

PredVals == {Fin(n, 2) : n \in 2..(2 * MaxLen)}

upVars == <<err, ctorArgs, lengths, logdur, range_, factor, dur, centers, align>>

InitNat ==
    /\ pc = "nat_called"
    /\ err = NoErr
    /\ ctorArgs = 0
    /\ inShape \in AlignShapes
    /\ mask = None
    /\ lengths = None
    /\ logdur = None
    /\ range_ = None
    /\ factor = None
    /\ dur = None
    /\ centers = None
    /\ align = None
    /\ reduction \in 1..MaxF
    /\ \E l \in {None} \cup TensorsOf(<<inShape[1]>>, "lin", LenVals) :
         /\ mellen = l
         /\ mel = IF IsNone(l) THEN None
                  ELSE Ones(<<inShape[1], MaxTo(l, inShape[1]).n, 1>>)
    /\ supplied = [mel |-> mel, mellen |-> mellen]
    /\ remains = NoRemains
    /\ predlen = None
    /\ ret = NoReturn

\* lines 71-86: text mask from textlen, encodings [B, S, C + E]
Encode ==
    /\ pc = "nat_called"
    /\ \E tl \in [1..MaxB -> 1..MaxS] :
         /\ \A b \in 1..MaxB : b <= inShape[1] => tl[b] <= inShape[2]
         /\ mask' = MaskOf(inShape, tl)
    /\ pc' = "nat_encoded"
    /\ UNCHANGED <<inShape, upVars, natVars>>

\* Reduction.forward: pad T to a multiple of the factor and group the frames
ReducedFrames(t, f) == -((-t) \div f)

Reduce(m, f) ==
    [mel |-> Ones(<<m.shape[1], ReducedFrames(m.shape[2], f), f * m.shape[3]>>),
     remains |-> ReducedFrames(m.shape[2], f) * f - m.shape[2]]

\* Reduction.unfold: ungroup the frames and drop the padded ones
Unfold(m, rem, f) ==
    Ones(<<m.shape[1], m.shape[2] * f - (IF rem > 0 THEN rem ELSE 0),
           m.shape[3] \div f>>)

\* line 93: torch.ceil(mellen / self.reduction.factor).to(torch.long)
ReducedLen(l, f) == Map1(LAMBDA v : Ceil(Div(v, Fin(f, 1))), l, "lin")

\* lines 88-95: reduction of the ground truth, if given
Reducing ==
    /\ pc = "nat_encoded"
    /\ IF ~IsNone(mel)
       THEN /\ mel' = Reduce(mel, reduction).mel
            /\ remains' = Reduce(mel, reduction).remains
            /\ mellen' = ReducedLen(mellen, reduction)
       ELSE /\ remains' = NoRemains
            /\ UNCHANGED <<mel, mellen>>
    /\ pc' = "nat_reduced"
    /\ UNCHANGED <<inShape, mask, upVars, reduction, supplied, predlen, ret>>

\* lines 96-97: the upsampler hands back the lengths it was given, or the
\* lengths it predicted
Upsample ==
    /\ pc = "nat_reduced"
    /\ IF ~IsNone(mellen)
       THEN predlen' = mellen
       ELSE predlen' \in TensorsOf(<<inShape[1]>>, "lin", PredVals)
    /\ pc' = "nat_upsampled"
    /\ UNCHANGED <<inShape, mask, upVars, reduction, supplied, mel, mellen,
                   remains, ret>>

\* line 99: the decoder emits one grouped frame per upsampled step
Decode ==
    /\ pc = "nat_upsampled"
    /\ mel' = Ones(<<inShape[1], Ceil(MaxTo(predlen, inShape[1])).n, reduction>>)
    /\ pc' = "nat_decoded"
    /\ UNCHANGED <<inShape, mask, upVars, reduction, supplied, mellen,
                   remains, predlen, ret>>

\* line 103: predlen.to(torch.long) * self.reduction.factor
PredictedMellen(l, f) == Map1(LAMBDA v : Fin((v.n \div v.d) * f, 1), l, "lin")

\* lines 101-105: unfold
Unfolding ==
    /\ pc = "nat_decoded"
    /\ mellen' = IF IsNone(mellen) THEN PredictedMellen(predlen, reduction)
                 ELSE mellen
    /\ mel' = Unfold(mel, remains, reduction)
    /\ pc' = "nat_unfolded"
    /\ UNCHANGED <<inShape, mask, upVars, reduction, supplied, remains,
                   predlen, ret>>

\* lines 107-109: mel_mask
FinalMask(m, l) ==
    LessT(Unsqueeze(Tensor(<<m.shape[2]>>, "lin", LAMBDA i : Fin(i[1] - 1, 1)), 1),
          Unsqueeze(l, 2))

\* lines 106-112: final length mask and return
Return ==
    /\ pc = "nat_unfolded"
    /\ ret' = [mel |-> MulT(mel, Unsqueeze(FinalMask(mel, mellen), 3)),
               mellen |-> mellen]
    /\ pc' = "nat_returned"
    /\ UNCHANGED <<inShape, mask, upVars, reduction, supplied, mel, mellen,
                   remains, predlen>>

NextNat == Encode \/ Reducing \/ Upsample \/ Decode \/ Unfolding \/ Return

SpecNat == InitNat /\ [][NextNat]_vars

====
